---- MODULE Spec2Model ----
(***************************************************************************)
(* Verification model of the VILOCA local-haplotype core:                  *)
(*   - read preparation (preparation.py): Read, the two loaders and        *)
(*     unique_reads_list;                                                  *)
(*   - the CAVI run loop (cavi.py: run_cavi);                              *)
(*   - the multi-start scheduler (cavi.py: multistart_cavi and its         *)
(*     completion callback collect_result).                                *)
(* Three specifications share the module: SpecDedup, SpecCavi, SpecMulti.  *)
(***************************************************************************)
EXTENDS Integers, Sequences, FiniteSets, TLC

VARIABLES
    \* ---- preparation.py ----
    source,        \* the records of the reads file, in file order
    reads_list,    \* the list a loader returns
    dd_pc,         \* which loader produced reads_list ("start" before the call)
    \* ---- cavi.py: run_cavi ----
    rc_pc, convergence_threshold, record_history,
    iter, converged, elbo, exit_message, history_elbo,
    history_alpha, history_mean_log_pi, history_mean_log_gamma,
    history_mean_cluster, dict_result,
    \* ---- cavi.py: multistart_cavi ----
    results, ms_pc, n_starts, start, task, outqueue, calls

dedupVars == <<source, reads_list, dd_pc>>
caviVars  == <<rc_pc, convergence_threshold, record_history, iter, converged,
               elbo, exit_message, history_elbo, history_alpha,
               history_mean_log_pi, history_mean_log_gamma,
               history_mean_cluster, dict_result>>
multiVars == <<results, ms_pc, n_starts, start, task, outqueue, calls>>
vars == <<dedupVars, caviVars, multiVars>>

(***************************************************************************)
(* Bounds of the model.                                                    *)
(***************************************************************************)
MaxReads == 4      \* longest reads file drawn
SeqLen == 2        \* length of every read (uniform per window)
MaxIter == 11      \* cap on the sweeps of the otherwise unbounded CAVI loop
MaxStarts == 2     \* largest n_starts drawn
MaxCalls == 2      \* invocations of multistart_cavi in one process
Cpus == 2          \* mp.cpu_count(): size of the worker pool

Alphabet == {"A", "C"}
SeqStrings == [1..SeqLen -> Alphabet]

RECURSIVE SeqsUpTo(_, _)
\* all sequences over S of length 0..n
SeqsUpTo(S, n) ==
    IF n = 0 THEN {<<>>}
    ELSE LET shorter == SeqsUpTo(S, n - 1)
         IN  shorter \cup {Append(s, x) : s \in {t \in shorter : Len(t) = n - 1}, x \in S}

(***************************************************************************)
(* preparation.py                                                          *)
(***************************************************************************)
\* Read.__init__: weight starts at 1, no absorbed duplicates.
Read(seq_string, seq_id) ==
    [seq_string |-> seq_string, weight |-> 1, id |-> seq_id,
     identical_reads |-> <<>>]

\* scipy.spatial.distance.hamming: the share of positions at which the two
\* sequences differ; modelled by its numerator (the share is 0 exactly when
\* the count is 0, and the code only tests hd == 0).
hamming(u, v) == Cardinality({p \in 1..Len(u) : u[p] # v[p]})

\* The loaders' loop: one Read per record, ids are the record names (here the
\* record's position in the file).
LoadedReads(records) ==
    [k \in 1..Len(records) |-> Read(records[k], k)]

\* mutant: the duplicate's weight is not decremented
merge_NoDecrement(rl, i, j) ==
    [rl EXCEPT ![i].weight = @ + 1,
               ![i].identical_reads = Append(@, rl[j].id)]

\* mutant: the later read becomes the canonical one
merge_LastWins(rl, i, j) ==
    [rl EXCEPT ![j].weight = @ + 1,
               ![j].identical_reads = Append(@, rl[i].id),
               ![i].weight = @ - 1]

\* preparation.py 88-90: the body of "if hd == 0"
merge(rl, i, j) ==
    [rl EXCEPT ![i].weight = @ + 1,
               ![i].identical_reads = Append(@, rl[j].id),
               ![j].weight = @ - 1]

RECURSIVE InnerLoop(_, _, _)
\* preparation.py 83-90: for j in range(i + 1, len(reads_list))
InnerLoop(rl, i, j) ==
    IF j > Len(rl) THEN rl
    ELSE IF hamming(rl[i].seq_string, rl[j].seq_string) = 0
         THEN InnerLoop(merge(rl, i, j), i, j + 1)
         ELSE InnerLoop(rl, i, j + 1)

\* preparation.py 82: if temp_read.weight > 0.0
IsCanonicalCandidate(r) == r.weight > 0

RECURSIVE OuterLoop(_, _)
\* preparation.py 81-90: for i, temp_read in enumerate(reads_list)
OuterLoop(rl, i) ==
    IF i > Len(rl) THEN rl
    ELSE IF IsCanonicalCandidate(rl[i])
         THEN OuterLoop(InnerLoop(rl, i, i + 1), i + 1)
         ELSE OuterLoop(rl, i + 1)

\* mutant: the filter keeps every read
KeepRead_All(r) == TRUE

\* preparation.py 93: read.weight > 0
KeepRead(r) == r.weight > 0

\* preparation.py 79-94
unique_reads_list(rl) == SelectSeq(OuterLoop(rl, 1), KeepRead)

InitDedupVars ==
    /\ source \in SeqsUpTo(SeqStrings, MaxReads)
    /\ reads_list = <<>>
    /\ dd_pc = "start"

\* preparation.py 62-76
load_bam2reads_list ==
    /\ dd_pc = "start"
    /\ reads_list' = unique_reads_list(LoadedReads(source))
    /\ dd_pc' = "bam"
    /\ UNCHANGED <<source, caviVars, multiVars>>

\* preparation.py 51-60
load_fasta2reads_list(unique_modus) ==
    /\ dd_pc = "start"
    /\ reads_list' = IF unique_modus THEN unique_reads_list(LoadedReads(source))
                                     ELSE LoadedReads(source)
    /\ dd_pc' = IF unique_modus THEN "fasta_unique" ELSE "fasta_raw"
    /\ UNCHANGED <<source, caviVars, multiVars>>

load_fasta2reads_list_unique == load_fasta2reads_list(TRUE)
load_fasta2reads_list_raw == load_fasta2reads_list(FALSE)

(***************************************************************************)
(* cavi.py: run_cavi                                                       *)
(*                                                                         *)
(* An ELBO is a float.  Floats are modelled as <<kind, v>>: a finite value *)
(* <<"fin", v>> counted in units of 1e-08, or one of the IEEE specials     *)
(* <<"nan", 0>>, <<"inf", 0>>, <<"ninf", 0>>, with IEEE arithmetic and     *)
(* comparisons (every comparison with NaN is false, inf - inf is NaN).     *)
(***************************************************************************)
Fin(v) == <<"fin", v>>
NaN == <<"nan", 0>>
PosInf == <<"inf", 0>>
NegInf == <<"ninf", 0>>

FiniteElbos == {Fin(0), Fin(1), Fin(3)}
\* what elbo_eqs.compute_elbo may return
ElboValues == FiniteElbos \cup {NaN, PosInf, NegInf}
\* caller-supplied convergence_threshold values (units of 1e-08)
Thresholds == {Fin(1), Fin(3)}

\* cavi.py 157: the tolerance 1e-08, in units of 1e-08
Tol == 1
\* cavi.py 116
min_number_iterations == 10

\* IEEE: x is a NaN
IsNaN(x) == x[1] = "nan"

\* cavi.py 152: np.isnan(elbo)
isnan(x) == IsNaN(x)

\* position of a non-NaN float on the extended real line
FloatRank(x) == IF x[1] = "ninf" THEN 0 ELSE IF x[1] = "fin" THEN 1 ELSE 2

\* float a > b
fgt(a, b) ==
    /\ ~IsNaN(a) /\ ~IsNaN(b)
    /\ \/ FloatRank(a) > FloatRank(b)
       \/ a[1] = "fin" /\ b[1] = "fin" /\ a[2] > b[2]

\* float a < b
flt(a, b) == fgt(b, a)

\* float a - b
fsub(a, b) ==
    IF IsNaN(a) \/ IsNaN(b) THEN NaN
    ELSE IF a[1] = "fin" /\ b[1] = "fin" THEN Fin(a[2] - b[2])
    ELSE IF a[1] = "fin" THEN (IF b[1] = "inf" THEN NegInf ELSE PosInf)
    ELSE IF b[1] = "fin" THEN a
    ELSE IF a[1] = b[1] THEN NaN
    ELSE a

\* np.abs
fabs(x) ==
    IF IsNaN(x) THEN NaN
    ELSE IF x[1] = "fin" THEN Fin(IF x[2] < 0 THEN -x[2] ELSE x[2])
    ELSE PosInf

\* cavi.py 151: if iter > 1
MonitorActive(it) == it > 1

\* cavi.py 157: (history_elbo[-2] > elbo) and np.abs(elbo - history_elbo[-2]) > 1e-08
IsDecreasing(prev, e) == fgt(prev, e) /\ fgt(fabs(fsub(e, prev)), Fin(Tol))

\* cavi.py 160: np.abs(elbo - history_elbo[-2]) < convergence_threshold
IsBelowThreshold(prev, e, thr) == flt(fabs(fsub(e, prev)), thr)

\* mutant: the loop stops as soon as the flag is set
WhileCond_NoMinimum(conv, it) == conv = FALSE

\* mutant: the loop is capped at min_number_iterations sweeps
WhileCond_Capped(conv, it) == it < min_number_iterations

\* cavi.py 117: while (converged is False) or (iter < min_number_iterations)
WhileCond(conv, it) == (conv = FALSE) \/ (it < min_number_iterations)

\* cavi.py 154, 158, 162: the exit messages
MsgNaN == "Error: ELBO is nan."
MsgDecreasing == "Error: ELBO is decreasing."
MsgConverged == "ELBO converged."

\* the list's element at Python index -2
Penultimate(h) == h[Len(h) - 1]

InitCaviVars ==
    /\ rc_pc = "loop"
    /\ convergence_threshold \in Thresholds
    /\ record_history \in BOOLEAN
    /\ iter = 0
    /\ converged = FALSE
    /\ elbo = Fin(0)
    /\ exit_message = "unbound"
    /\ history_elbo = <<>>
    \* a parameter snapshot is modelled by the number of sweeps it reflects;
    \* without record_history the four names are unbound (and never read)
    /\ history_alpha = IF record_history THEN <<0>> ELSE <<>>
    /\ history_mean_log_pi = IF record_history THEN <<0>> ELSE <<>>
    /\ history_mean_log_gamma = IF record_history THEN <<0>> ELSE <<>>
    /\ history_mean_cluster = IF record_history THEN <<0>> ELSE <<>>
    /\ dict_result = [run_id |-> 0]

\* cavi.py 117-166: one pass through the body of the while loop; e is the
\* value elbo_eqs.compute_elbo returns for the updated state
Sweep ==
    /\ rc_pc = "loop"
    /\ WhileCond(converged, iter)
    /\ iter < MaxIter
    /\ \E e \in ElboValues :
        LET h == Append(history_elbo, e)
            snap == (iter % 2 = 0) /\ record_history
            monitored == MonitorActive(iter)
            isNan == monitored /\ isnan(e)
            isDec == monitored /\ ~isNan /\ IsDecreasing(Penultimate(h), e)
            isConv == monitored /\ ~isNan /\ ~isDec
                        /\ IsBelowThreshold(Penultimate(h), e, convergence_threshold)
        IN  /\ elbo' = e
            /\ history_elbo' = h
            /\ history_mean_log_pi' =
                 IF snap THEN Append(history_mean_log_pi, iter + 1) ELSE history_mean_log_pi
            /\ history_mean_log_gamma' =
                 IF snap THEN Append(history_mean_log_gamma, iter + 1) ELSE history_mean_log_gamma
            /\ history_mean_cluster' =
                 IF snap THEN Append(history_mean_cluster, iter + 1) ELSE history_mean_cluster
            /\ exit_message' =
                 IF isNan THEN MsgNaN
                 ELSE IF isDec THEN MsgDecreasing
                 ELSE IF isConv THEN MsgConverged
                 ELSE exit_message
            /\ converged' = IF isConv THEN TRUE ELSE converged
            /\ IF isNan \/ isDec
               THEN /\ rc_pc' = "after_loop"      \* break
                    /\ iter' = iter
               ELSE /\ rc_pc' = "loop"
                    /\ iter' = iter + 1
    /\ UNCHANGED <<convergence_threshold, record_history, history_alpha,
                   dict_result, dedupVars, multiVars>>

\* cavi.py 169-199: the code after the loop, reached by a break or by the
\* loop condition turning false.  Reading an unassigned exit_message would
\* raise UnboundLocalError.
Return ==
    /\ \/ rc_pc = "after_loop"
       \/ rc_pc = "loop" /\ ~WhileCond(converged, iter)
    /\ IF exit_message = "unbound"
       THEN /\ rc_pc' = "raised"
            /\ UNCHANGED dict_result
       ELSE /\ rc_pc' = "returned"
            /\ dict_result' =
                 [run_id |-> dict_result.run_id,
                  exit_message |-> exit_message,
                  n_iterations |-> iter,
                  converged |-> converged,
                  elbo |-> elbo,
                  history_elbo |-> history_elbo,
                  has_history |-> record_history,
                  history_alpha |-> history_alpha,
                  history_mean_log_pi |-> history_mean_log_pi,
                  history_mean_log_gamma |-> history_mean_log_gamma,
                  history_mean_cluster |-> history_mean_cluster]
    /\ UNCHANGED <<convergence_threshold, record_history, iter, converged,
                   elbo, exit_message, history_elbo, history_alpha,
                   history_mean_log_pi, history_mean_log_gamma,
                   history_mean_cluster, dedupVars, multiVars>>


(***************************************************************************)
(* cavi.py: multistart_cavi and collect_result                             *)
(*                                                                         *)
(* task[s] follows the run submitted for start s through the pool:         *)
(*   "none"      not submitted to the current pool                         *)
(*   "queued"    submitted by apply_async, waiting for a free worker       *)
(*   "running"   a worker process executes run_cavi                        *)
(*   "finished"  the worker has put its outcome on the pool's out-queue    *)
(*   "done"      the pool's result handler has run the callback            *)
(*   "failed"    the outcome was an exception; no callback exists for it   *)
(* outqueue is the pool's out-queue, read by the result-handler thread of  *)
(* the calling process.  results is the module-level list of cavi.py 17.   *)
(***************************************************************************)
Starts == 0..(MaxStarts - 1)

\* run_cavi's return value as the scheduler sees it (cavi.py 84-90, 197)
RunResult(s) == [run_id |-> s]

InitMultiVars ==
    /\ results = <<>>
    /\ ms_pc = "idle"
    /\ n_starts = 0
    /\ start = 0
    /\ task = [s \in Starts |-> "none"]
    /\ outqueue = <<>>
    /\ calls = 0

\* cavi.py 25-40: a call of multistart_cavi; mp.Pool(mp.cpu_count()).  The
\* module-level list results (cavi.py 17) is bound once, at import: a call
\* finds it as the previous calls left it.
Call ==
    /\ ms_pc \in {"idle", "returned"}
    /\ calls < MaxCalls
    /\ \E n \in 0..MaxStarts : n_starts' = n
    /\ calls' = calls + 1
    /\ start' = 0
    /\ task' = [s \in Starts |-> "none"]
    /\ outqueue' = <<>>
    /\ results' = results
    /\ ms_pc' = "submit"
    /\ UNCHANGED <<dedupVars, caviVars>>

\* cavi.py 41-59: one pass of "for start in range(n_starts)"
Submit ==
    /\ ms_pc = "submit"
    /\ start < n_starts
    /\ task' = [task EXCEPT ![start] = "queued"]
    /\ start' = start + 1
    /\ UNCHANGED <<results, ms_pc, n_starts, outqueue, calls, dedupVars, caviVars>>

\* cavi.py 61: pool.close(), after the for loop
Close ==
    /\ ms_pc = "submit"
    /\ start = n_starts
    /\ ms_pc' = "join"
    /\ UNCHANGED <<results, n_starts, start, task, outqueue, calls, dedupVars, caviVars>>

Running == {s \in Starts : task[s] = "running"}
Queued == {s \in Starts : task[s] = "queued"}

\* cavi.py 40, 42: a free worker of the pool takes the oldest queued task
WorkerStart ==
    /\ Queued # {}
    /\ Cardinality(Running) < Cpus
    /\ LET s == CHOOSE q \in Queued : \A r \in Queued : q <= r
       IN  task' = [task EXCEPT ![s] = "running"]
    /\ UNCHANGED <<results, ms_pc, n_starts, start, outqueue, calls, dedupVars, caviVars>>

\* cavi.py 43, 197-199: run_cavi returns in the worker
WorkerReturn ==
    /\ \E s \in Running :
        /\ task' = [task EXCEPT ![s] = "finished"]
        /\ outqueue' = Append(outqueue, [run_id |-> s, ok |-> TRUE])
    /\ UNCHANGED <<results, ms_pc, n_starts, start, calls, dedupVars, caviVars>>

\* cavi.py 43: run_cavi raises in the worker; the pool ships the exception
WorkerRaise ==
    /\ \E s \in Running :
        /\ task' = [task EXCEPT ![s] = "finished"]
        /\ outqueue' = Append(outqueue, [run_id |-> s, ok |-> FALSE])
    /\ UNCHANGED <<results, ms_pc, n_starts, start, calls, dedupVars, caviVars>>

\* cavi.py 20-22
collect_result(r, result) == Append(r, result)

\* cavi.py 42-59: the pool's result handler takes the oldest outcome and, for
\* a successful one, calls callback=collect_result.  apply_async is given no
\* error_callback=, and the AsyncResult that holds an exception is discarded:
\* a failure leaves results as it is.
HandleResult ==
    /\ outqueue # <<>>
    /\ LET msg == Head(outqueue)
       IN  /\ results' = IF msg.ok THEN collect_result(results, RunResult(msg.run_id))
                                   ELSE results
           /\ task' = [task EXCEPT ![msg.run_id] = IF msg.ok THEN "done" ELSE "failed"]
    /\ outqueue' = Tail(outqueue)
    /\ UNCHANGED <<ms_pc, n_starts, start, calls, dedupVars, caviVars>>

\* mutant: join does not wait
JoinReady_NoWait == TRUE

\* cavi.py 62: pool.join() returns once every worker has exited and the
\* result handler has drained the out-queue
JoinReady ==
    /\ \A s \in Starts : task[s] \in {"none", "done", "failed"}
    /\ outqueue = <<>>

\* cavi.py 62-64: pool.join(); return results
Join ==
    /\ ms_pc = "join"
    /\ JoinReady
    /\ ms_pc' = "returned"
    /\ UNCHANGED <<results, n_starts, start, task, outqueue, calls, dedupVars, caviVars>>

(***************************************************************************)
(* Specifications                                                          *)
(***************************************************************************)
\* the three parts at rest, for the specifications that do not exercise them
IdleDedupVars == source = <<>> /\ reads_list = <<>> /\ dd_pc = "start"
IdleCaviVars ==
    /\ convergence_threshold = Fin(1) /\ record_history = FALSE
    /\ InitCaviVars
IdleMultiVars == InitMultiVars

InitDedup == InitDedupVars /\ IdleCaviVars /\ IdleMultiVars
NextDedup ==
    \/ load_bam2reads_list
    \/ load_fasta2reads_list_unique
    \/ load_fasta2reads_list_raw
SpecDedup == InitDedup /\ [][NextDedup]_vars

InitCavi == IdleDedupVars /\ InitCaviVars /\ IdleMultiVars
NextCavi == Sweep \/ Return
SpecCavi == InitCavi /\ [][NextCavi]_vars

InitMulti == IdleDedupVars /\ IdleCaviVars /\ InitMultiVars
NextMulti ==
    \/ Call \/ Submit \/ Close
    \/ WorkerStart \/ WorkerReturn \/ WorkerRaise
    \/ HandleResult \/ Join
SpecMulti == InitMulti /\ [][NextMulti]_vars


(***************************************************************************)
(* Properties: read deduplication (SpecDedup)                              *)
(***************************************************************************)
\* a loader that deduplicates has returned
DedupApplied == dd_pc \in {"bam", "fasta_unique"}

RECURSIVE SumWeights(_)
SumWeights(rl) == IF rl = <<>> THEN 0 ELSE Head(rl).weight + SumWeights(Tail(rl))

Weights(rl) == [p \in 1..Len(rl) |-> rl[p].weight]

\* positions of the reads no earlier read equals
FirstOccurrences(src) ==
    {k \in 1..Len(src) : \A m \in 1..(k - 1) : src[m] # src[k]}

\* positions of the later reads equal to read k
LaterDuplicates(src, k) == {m \in (k + 1)..Len(src) : src[m] = src[k]}

\* C1: for freshly loaded reads (every weight 1) the weights of the reads
\* unique_reads_list returns sum to the number of reads loaded.
C1_TotalWeightPreserved ==
    DedupApplied => SumWeights(reads_list) = Len(source)

\* C1 witness: a file of at least three reads some of which were merged.
C1_Witness ==
    /\ DedupApplied
    /\ Len(source) >= 3
    /\ Len(reads_list) >= 2
    /\ Len(reads_list) < Len(source)

\* C8: unique_reads_list returns exactly the first occurrence of each distinct
\* sequence, in input order; a returned read's weight is 1 + the number of
\* later identical reads = 1 + the length of its identical_reads; no two
\* returned reads share a sequence.
C8_FirstSeenCanonical ==
    DedupApplied =>
        /\ Len(reads_list) = Cardinality(FirstOccurrences(source))
        /\ {reads_list[p].id : p \in 1..Len(reads_list)} = FirstOccurrences(source)
        /\ \A p, q \in 1..Len(reads_list) :
              p < q => /\ reads_list[p].id < reads_list[q].id
                       /\ reads_list[p].seq_string # reads_list[q].seq_string
        /\ \A p \in 1..Len(reads_list) :
              LET r == reads_list[p]
              IN  /\ r.seq_string = source[r.id]
                  /\ r.weight = 1 + Cardinality(LaterDuplicates(source, r.id))
                  /\ r.weight = 1 + Len(r.identical_reads)
                  /\ {r.identical_reads[x] : x \in 1..Len(r.identical_reads)}
                        = LaterDuplicates(source, r.id)

\* C8 witness: a sequence seen three times next to another sequence.
C8_Witness ==
    /\ DedupApplied
    /\ Len(reads_list) >= 2
    /\ \E p \in 1..Len(reads_list) : reads_list[p].weight >= 3

\* four reads, the second and third identical, no other pair identical
OnlyReads2And3Identical(src) ==
    /\ Len(src) = 4
    /\ \A a, b \in 1..4 : a < b => ((src[a] = src[b]) <=> (a = 2 /\ b = 3))

\* C9 as stated: such an input yields 3 unique reads with weights [2,1,1] in
\* first-seen order.
C9_Original ==
    (DedupApplied /\ OnlyReads2And3Identical(source)) =>
        (Len(reads_list) = 3 /\ Weights(reads_list) = <<2, 1, 1>>)

\* C9 amended: such an input yields 3 unique reads with weights [1,2,1] in
\* first-seen order (the duplicated read is the second one seen).
C9_Weights121 ==
    (DedupApplied /\ OnlyReads2And3Identical(source)) =>
        (Len(reads_list) = 3 /\ Weights(reads_list) = <<1, 2, 1>>)

\* C9 witness: the scenario's input has been deduplicated.
C9_Witness == DedupApplied /\ OnlyReads2And3Identical(source)

(***************************************************************************)
(* Properties: run_cavi (SpecCavi)                                         *)
(***************************************************************************)
Returned == rc_pc = "returned"
AfterLoop == rc_pc \in {"after_loop", "returned"}

Last(h) == h[Len(h)]

\* the newest ELBO is lower than its predecessor by more than the tolerance
LastStepDecreased(h) ==
    /\ Len(h) >= 2
    /\ fgt(Penultimate(h), Last(h))
    /\ fgt(fabs(fsub(Last(h), Penultimate(h))), Fin(Tol))

\* the newest ELBO is NaN or +/-infinity
LastNotFinite(h) == Len(h) >= 1 /\ Last(h)[1] # "fin"

\* C2 as stated: a result with converged = True has n_iterations >= 10 and its
\* last two ELBOs differ by less than convergence_threshold.
C2_Claim ==
    (Returned /\ dict_result.converged) =>
        /\ dict_result.n_iterations >= min_number_iterations
        /\ Len(dict_result.history_elbo) >= 2
        /\ flt(fabs(fsub(Last(dict_result.history_elbo),
                         Penultimate(dict_result.history_elbo))),
               convergence_threshold)

\* C3 as stated: whenever the newest ELBO is lower than the previous one by
\* more than 1e-08 (first two sweeps included), the loop has been left with
\* the 'ELBO is decreasing' status; no further sweep follows.
C3_Claim ==
    LastStepDecreased(history_elbo) =>
        (AfterLoop /\ exit_message = MsgDecreasing)

\* C4 as stated: whenever the newest ELBO is not finite, the loop has been
\* left with the NaN status; no further sweep follows.
C4_Claim ==
    LastNotFinite(history_elbo) =>
        (AfterLoop /\ exit_message = MsgNaN)

\* C7 as stated: every returned run is in a terminal status and reports
\* n_iterations >= 10.
C7_Original ==
    Returned =>
        /\ dict_result.exit_message \in {MsgConverged, MsgNaN, MsgDecreasing}
        /\ dict_result.n_iterations >= min_number_iterations

\* C7 amended: run_cavi never ends without a status; every returned run is in
\* a terminal status; with status 'ELBO converged.' it reports n_iterations
\* >= 10, with a diverged status it reports the index of the sweep that broke
\* off, which is >= 2.
C7_TerminalStatus ==
    /\ rc_pc # "raised"
    /\ Returned =>
        /\ dict_result.exit_message \in {MsgConverged, MsgNaN, MsgDecreasing}
        /\ dict_result.exit_message = MsgConverged
              => dict_result.n_iterations >= min_number_iterations
        /\ dict_result.exit_message \in {MsgNaN, MsgDecreasing}
              => dict_result.n_iterations >= 2

\* C7 witness: a run that returned diverged before its tenth sweep.
C7_Witness ==
    /\ Returned
    /\ dict_result.exit_message \in {MsgNaN, MsgDecreasing}
    /\ dict_result.n_iterations < min_number_iterations

(***************************************************************************)
(* Properties: multistart_cavi (SpecMulti)                                 *)
(***************************************************************************)
MultiReturned == ms_pc = "returned"
Submitted == 0..(n_starts - 1)
ResultIds == {results[k].run_id : k \in 1..Len(results)}

\* C5 as stated: a call with n_starts = N returns exactly N results whose run
\* ids are {0, ..., N-1}, whatever the completion order.
C5_Claim ==
    MultiReturned => (Len(results) = n_starts /\ ResultIds = Submitted)

\* C6 as stated: a run whose worker raised appears in the returned collection
\* under its run id (stated for the first call of the process, when the
\* collection holds nothing from earlier calls).
C6_Claim ==
    (MultiReturned /\ calls = 1) =>
        \A s \in Submitted : task[s] = "failed" => s \in ResultIds

EvenSweeps(h) == (Len(h) + 1) \div 2

\* C11 as stated: with record_history the four parameter histories each hold
\* the initial value plus one entry per even-numbered sweep executed; without
\* it no parameter history is part of the result.
C11_Claim ==
    Returned =>
        IF dict_result.has_history
        THEN /\ Len(dict_result.history_alpha) = 1 + EvenSweeps(dict_result.history_elbo)
             /\ Len(dict_result.history_mean_log_pi) = 1 + EvenSweeps(dict_result.history_elbo)
             /\ Len(dict_result.history_mean_log_gamma) = 1 + EvenSweeps(dict_result.history_elbo)
             /\ Len(dict_result.history_mean_cluster) = 1 + EvenSweeps(dict_result.history_elbo)
        ELSE /\ dict_result.history_alpha = <<>>
             /\ dict_result.history_mean_log_pi = <<>>
             /\ dict_result.history_mean_log_gamma = <<>>
             /\ dict_result.history_mean_cluster = <<>>

(***************************************************************************)
(* Properties: loaders on an empty input (SpecDedup)                       *)
(***************************************************************************)
\* a loader has returned normally
LoaderReturned == dd_pc \in {"bam", "fasta_unique", "fasta_raw"}

\* C12 as stated: a loader never returns normally from a reads source with
\* zero records, and never returns an empty reads list.
C12_Claim ==
    LoaderReturned => (source # <<>> /\ reads_list # <<>>)

(***************************************************************************)
(* Properties: run_cavi, termination (SpecCavi)                            *)
(***************************************************************************)
\* from the third entry on (the monitored sweeps) every ELBO of h is finite,
\* none is lower than its predecessor by more than the tolerance, and none
\* differs from its predecessor by less than thr
NeverSettles(h, thr) ==
    \A k \in 3..Len(h) :
        /\ h[k][1] = "fin"
        /\ ~(fgt(h[k - 1], h[k]) /\ fgt(fabs(fsub(h[k], h[k - 1])), Fin(Tol)))
        /\ ~flt(fabs(fsub(h[k], h[k - 1])), thr)

\* C13: the loop is left only by the NaN break, the decrease break, or with
\* converged set and at least 10 iterations done; and while the ELBOs stay
\* finite, never decrease beyond the tolerance and never change by less than
\* convergence_threshold, the run is still in the loop, whatever the number
\* of sweeps done, with the loop condition true and no status assigned.
C13_NoIterationBound ==
    /\ rc_pc # "loop" =>
          \/ exit_message = MsgNaN
          \/ exit_message = MsgDecreasing
          \/ converged /\ iter >= min_number_iterations
    /\ NeverSettles(history_elbo, convergence_threshold) =>
          /\ rc_pc = "loop"
          /\ converged = FALSE
          /\ exit_message = "unbound"
          /\ iter = Len(history_elbo)

\* C13 witness: a run past its tenth sweep, still in the loop, unconverged.
C13_Witness ==
    /\ rc_pc = "loop"
    /\ iter > min_number_iterations
    /\ NeverSettles(history_elbo, convergence_threshold)
    /\ converged = FALSE

(***************************************************************************)
(* Properties: run_cavi, agreement of the result's fields (SpecCavi)       *)
(***************************************************************************)
\* C14 as stated: in every returned result converged is True exactly when
\* exit_message is 'ELBO converged.'.
C14_Claim ==
    Returned =>
        (dict_result.converged <=> dict_result.exit_message = MsgConverged)

\* C16 as stated: in every returned result n_iterations is the number of
\* sweeps executed, len(history_elbo), on every exit path.
C16_Claim ==
    Returned =>
        dict_result.n_iterations = Len(dict_result.history_elbo)

(***************************************************************************)
(* Properties: multistart_cavi, successive calls (SpecMulti)               *)
(***************************************************************************)
\* the runs of the current call whose result the callback has collected
Collected == {s \in Submitted : task[s] = "done"}

\* C15 as stated: a call returns only the results of the runs it launched
\* itself: as many results as runs of this call returned one (n_starts when
\* no run fails), however many results earlier calls produced.
C15_Claim ==
    MultiReturned =>
        /\ Len(results) = Cardinality(Collected)
        /\ ResultIds = Collected

====
